---- MODULE Spec2Model ----
(***************************************************************************)
(* Model of src/chat_with_csv/agent_tools.py: the SQLite engine cache      *)
(* (get_sqlite_engine), the Markdown fence stripper, the database_tool     *)
(* chain and the keyword dispatch of describe_dataset.                     *)
(*                                                                         *)
(* Python strings are sequences of one-character strings.  An optional     *)
(* value (None or x) is the sequence <<>> or <<x>>.                        *)
(***************************************************************************)
EXTENDS Integers, Sequences, FiniteSets, TLC

VARIABLES
    cache_resource,  \* the st.cache_resource entry of get_sqlite_engine
    engines,         \* number of engine objects create_engine has made
    session_state,   \* st.session_state of each session: engine, df, columns
    upload,          \* the CSV each session uploaded
    db_file,         \* table db of db.db: <<>> (no table) or <<rows>>
    pc,              \* where each session's script stands
    turn,            \* the running (or last) tool call of each session
    hist,            \* per session: what its get_sqlite_engine calls did
    fence_in,        \* remove_markdown_code_block: argument
    fence_out,       \*                             return value
    desc_query,      \* describe_dataset: argument
    desc_df,         \*                   st.session_state.df
    desc_out         \*                   return value

vars == <<cache_resource, engines, session_state, upload, db_file, pc, turn,
          hist, fence_in, fence_out, desc_query, desc_df, desc_out>>

appVars == <<cache_resource, engines, session_state, upload, db_file, pc,
             turn, hist>>
fenceVars == <<fence_in, fence_out>>
descVars == <<desc_query, desc_df, desc_out>>

\* ---------------------------------------------------------------- bounds
MaxInner == 2
MaxTokens == 2

\* --------------------------------------------------------------- strings
None == <<>>
Some(x) == <<x>>

RECURSIVE Flatten(_)
Flatten(ss) == IF ss = <<>> THEN <<>> ELSE Head(ss) \o Flatten(Tail(ss))

SeqsUpTo(S, n) == UNION {[1..k -> S] : k \in 0..n}

\* str.startswith / str.endswith
startswith(s, p) == Len(s) >= Len(p) /\ SubSeq(s, 1, Len(p)) = p
endswith(s, p) == Len(s) >= Len(p) /\ SubSeq(s, Len(s) - Len(p) + 1, Len(s)) = p

\* a Python slice s[a:b], b negative counting from the end, both clamped
PySlice(s, a, b) ==
    LET n == Len(s)
        lo == IF a > n THEN n ELSE a
        hi0 == IF b < 0 THEN n + b ELSE b
        hi == IF hi0 < 0 THEN 0 ELSE IF hi0 > n THEN n ELSE hi0
    IN  IF hi <= lo THEN <<>> ELSE SubSeq(s, lo + 1, hi)

\* the characters str.strip() removes (those the inputs can hold)
Whitespace == {" ", "\n", "\t"}

RECURSIVE lstrip(_)
lstrip(s) == IF s # <<>> /\ Head(s) \in Whitespace THEN lstrip(Tail(s)) ELSE s

RECURSIVE rstrip(_)
rstrip(s) ==
    IF s # <<>> /\ s[Len(s)] \in Whitespace
    THEN rstrip(SubSeq(s, 1, Len(s) - 1)) ELSE s

strip(s) == rstrip(lstrip(s))

\* str.lower() on ASCII letters
UpperCase == <<"A", "B", "C", "D", "E", "F", "G", "H", "I", "J", "K", "L", "M",
               "N", "O", "P", "Q", "R", "S", "T", "U", "V", "W", "X", "Y", "Z">>
LowerCase == <<"a", "b", "c", "d", "e", "f", "g", "h", "i", "j", "k", "l", "m",
               "n", "o", "p", "q", "r", "s", "t", "u", "v", "w", "x", "y", "z">>
lower_char(c) ==
    IF \E i \in 1..Len(UpperCase) : UpperCase[i] = c
    THEN LowerCase[CHOOSE i \in 1..Len(UpperCase) : UpperCase[i] = c]
    ELSE c
lower(s) == [i \in 1..Len(s) |-> lower_char(s[i])]

\* Python's  k in s  on strings
contains(s, k) == \E i \in 0..(Len(s) - Len(k)) : SubSeq(s, i + 1, i + Len(k)) = k

\* str(n) of a natural number
Digits == <<"0", "1", "2", "3", "4", "5", "6", "7", "8", "9">>
RECURSIVE str(_)
str(n) == IF n < 10 THEN <<Digits[n + 1]>>
          ELSE str(n \div 10) \o <<Digits[(n % 10) + 1]>>

\* ", ".join(names)
RECURSIVE join(_)
join(names) ==
    IF names = <<>> THEN <<>>
    ELSE IF Len(names) = 1 THEN Head(names)
    ELSE Head(names) \o <<",", " ">> \o join(Tail(names))

\* ------------------------------------------ remove_markdown_code_block
\* the grave accent, which a TLA+ string literal cannot hold
BQ == "<grave>"
FenceOpen == <<BQ, BQ, BQ, "s", "q", "l">>
FenceClose == <<BQ, BQ, BQ>>

remove_markdown_code_block_nostrip(sql_code) ==
    IF startswith(sql_code, FenceOpen) /\ endswith(sql_code, FenceClose)
    THEN PySlice(sql_code, 6, -3)
    ELSE sql_code

remove_markdown_code_block(sql_code) ==
    IF startswith(sql_code, FenceOpen) /\ endswith(sql_code, FenceClose)
    THEN strip(PySlice(sql_code, 6, -3))
    ELSE sql_code

\* ------------------------------------------------------------ DataFrames
\* A DataFrame: its column names and its rows.
CsvA == [columns |-> << <<"i", "d">>, <<"n", "a", "m", "e">> >>,
         rows |-> << <<1, 10>>, <<2, 20>>, <<3, 30>> >>]
CsvB == [columns |-> << <<"x">> >>,
         rows |-> << <<7>> >>]
CsvC == [columns |-> << <<"a">>, <<"b">>, <<"c">> >>,
         rows |-> << <<1, 1, 1>>, <<2, 2, 2>>, <<3, 3, 3>>, <<4, 4, 4>>,
                     <<5, 5, 5>>, <<6, 6, 6>> >>]

shape(df) == <<Len(df.rows), Len(df.columns)>>
head(df) == [columns |-> df.columns, rows |-> PySlice(df.rows, 0, 5)]
describe_to_html(df) == [describe |-> df]

\* ------------------------------------------------------ describe_dataset
\* What a call does: return a string (its fixed text and the values
\* formatted into it) or raise.
Returned(text, data) == [kind |-> "return", text |-> text, data |-> data]
Raised(exc) == [kind |-> "raise", text |-> exc, data |-> <<>>]
Pending == [kind |-> "pending", text |-> "", data |-> <<>>]

kw_describe == <<"d", "e", "s", "c", "r", "i", "b", "e">>
kw_statistics == <<"s", "t", "a", "t", "i", "s", "t", "i", "c", "s">>
kw_columns == <<"c", "o", "l", "u", "m", "n", "s">>
kw_fields == <<"f", "i", "e", "l", "d", "s">>
kw_shape == <<"s", "h", "a", "p", "e">>
kw_size == <<"s", "i", "z", "e">>
kw_sample == <<"s", "a", "m", "p", "l", "e">>

StatisticsText ==
    "Here's a statistical description of the numerical columns in the dataset:\n"
ColumnsText == "The dataset contains the following columns: "
ShapeText == "The dataset has {rows} rows and {cols} columns."
SampleText == "Here's a sample of the first few rows of the dataset:\n"
ClarificationText ==
    "I'm sorry, I couldn't understand your request about the dataset. Could you please be more specific? You can ask about the dataset's description, statistics, columns, shape, or a sample of the data."

\* an attribute access on st.session_state.df while it is None
NoneAttribute == Raised("AttributeError")

describe_dataset_sample_first(query, df) ==
    IF contains(lower(query), kw_sample)
    THEN IF df = None THEN NoneAttribute
         ELSE Returned(SampleText, <<head(df[1])>>)
    ELSE IF contains(lower(query), kw_describe)
            \/ contains(lower(query), kw_statistics)
    THEN IF df = None THEN NoneAttribute
         ELSE Returned(StatisticsText, <<describe_to_html(df[1])>>)
    ELSE IF contains(lower(query), kw_columns)
            \/ contains(lower(query), kw_fields)
    THEN IF df = None THEN NoneAttribute
         ELSE Returned(ColumnsText, <<join(df[1].columns)>>)
    ELSE IF contains(lower(query), kw_shape) \/ contains(lower(query), kw_size)
    THEN IF df = None THEN NoneAttribute
         ELSE Returned(ShapeText, <<str(shape(df[1])[1]), str(shape(df[1])[2])>>)
    ELSE Returned(ClarificationText, <<>>)

describe_dataset(query, df) ==
    IF contains(lower(query), kw_describe)
       \/ contains(lower(query), kw_statistics)
    THEN IF df = None THEN NoneAttribute
         ELSE Returned(StatisticsText, <<describe_to_html(df[1])>>)
    ELSE IF contains(lower(query), kw_columns)
            \/ contains(lower(query), kw_fields)
    THEN IF df = None THEN NoneAttribute
         ELSE Returned(ColumnsText, <<join(df[1].columns)>>)
    ELSE IF contains(lower(query), kw_shape) \/ contains(lower(query), kw_size)
    THEN IF df = None THEN NoneAttribute
         ELSE Returned(ShapeText, <<str(shape(df[1])[1]), str(shape(df[1])[2])>>)
    ELSE IF contains(lower(query), kw_sample)
    THEN IF df = None THEN NoneAttribute
         ELSE Returned(SampleText, <<head(df[1])>>)
    ELSE Returned(ClarificationText, <<>>)

\* ------------------------------------------------ the functions on their own
AppOff ==
    /\ cache_resource = None /\ engines = 0 /\ session_state = <<>>
    /\ upload = <<>> /\ db_file = None /\ pc = <<>> /\ turn = <<>>
    /\ hist = <<>>
FenceOff == fence_in = <<>> /\ fence_out = None
DescOff == desc_query = <<>> /\ desc_df = None /\ desc_out = Pending

\* Arguments of remove_markdown_code_block: a start, a middle of at most
\* MaxInner characters, an end.
FencePrefixes ==
    {<<>>, FenceOpen, FenceClose, <<BQ, BQ, BQ, "S", "Q", "L">>,
     <<" ">> \o FenceOpen}
FenceInner == {" ", "\n", "\t", "a", BQ}
FenceSuffixes == {<<>>, FenceClose, <<BQ, BQ>>, FenceClose \o <<"\n">>}
FenceInputs ==
    {p \o m \o e : p \in FencePrefixes, m \in SeqsUpTo(FenceInner, MaxInner),
                   e \in FenceSuffixes}

InitFence ==
    /\ AppOff /\ DescOff
    /\ fence_in \in FenceInputs
    /\ fence_out = None

CallRemoveMarkdown ==
    /\ fence_out = None
    /\ fence_out' = Some(remove_markdown_code_block(fence_in))
    /\ UNCHANGED <<fence_in, appVars, descVars>>

NextFence == CallRemoveMarkdown
SpecFence == InitFence /\ [][NextFence]_vars

\* Arguments of describe_dataset: at most MaxTokens of these, concatenated.
QueryTokens ==
    {kw_describe, kw_statistics, kw_columns, kw_fields, kw_shape, kw_size,
     kw_sample,
     <<"D", "e", "s", "c", "r", "i", "b", "e">>,
     <<"S", "A", "M", "P", "L", "E">>,
     <<"d", "e">>, <<"s", "c", "r", "i", "b", "e">>,
     <<" ">>, <<"u", "n", "k", "n", "o", "w", "n">>}
Queries == {Flatten(ts) : ts \in SeqsUpTo(QueryTokens, MaxTokens)}

InitDescribe ==
    /\ AppOff /\ FenceOff
    /\ desc_query \in Queries
    /\ desc_df \in {Some(CsvA), Some(CsvB), Some(CsvC)}
    /\ desc_out = Pending

CallDescribe ==
    /\ desc_out = Pending
    /\ desc_out' = describe_dataset(desc_query, desc_df)
    /\ UNCHANGED <<desc_query, desc_df, appVars, fenceVars>>

NextDescribe == CallDescribe
SpecDescribe == InitDescribe /\ [][NextDescribe]_vars

\* ------------------------------------------------------- the application
Sessions == {"s1", "s2"}

\* st.session_state as the application initialises it
FreshState == [engine |-> None, df |-> None, columns |-> None]

\* Tools.load_csv_files(Tools.PATH, key='dataframe'): the DataFrame of the
\* session's uploaded CSV, or None when it raises
load_csv_files(s, ok) == IF ok THEN Some(upload[s]) ELSE None

\* df.to_sql("db", engine, index=False): if_exists defaults to 'fail'
to_sql(df, table) ==
    IF table # None THEN [raised |-> TRUE, table |-> table]
    ELSE [raised |-> FALSE, table |-> Some(df.rows)]

\* DROP TABLE IF EXISTS db
drop_table_if_exists(table) == None

\* The body of get_sqlite_engine for a session whose state is ss, with the
\* table and the number of engines made so far.
get_sqlite_engine_body_eager(ss, loaded, table, n) ==
    IF ss.engine = None
    THEN IF loaded = None
         THEN [raised |-> TRUE, loaded |-> FALSE, table |-> table,
               ss |-> [ss EXCEPT !.engine = Some(n + 1)],
               engines |-> n + 1, ret |-> None]
         ELSE [raised |-> FALSE, loaded |-> TRUE,
               ss |-> [engine |-> Some(n + 1), df |-> loaded,
                       columns |-> Some(loaded[1].columns)],
               table |-> Some(loaded[1].rows),
               engines |-> n + 1, ret |-> Some(n + 1)]
    ELSE [raised |-> FALSE, loaded |-> FALSE, ss |-> ss, table |-> table,
          engines |-> n, ret |-> ss.engine]

get_sqlite_engine_body(ss, loaded, table, n) ==
    IF ss.engine = None
    THEN IF loaded = None
         THEN \* load_csv_files raised on line 29
              [raised |-> TRUE, loaded |-> FALSE, ss |-> ss, table |-> table,
               engines |-> n, ret |-> None]
         ELSE LET df == loaded[1]
                  ss1 == [ss EXCEPT !.df = Some(df)]
                  ss2 == [ss1 EXCEPT !.columns = Some(df.columns)]
                  engine == n + 1
                  dropped == drop_table_if_exists(drop_table_if_exists(table))
                  sql == to_sql(df, dropped)
              IN  IF sql.raised
                  THEN [raised |-> TRUE, loaded |-> FALSE, ss |-> ss2,
                        table |-> sql.table, engines |-> engine, ret |-> None]
                  ELSE [raised |-> FALSE, loaded |-> TRUE,
                        ss |-> [ss2 EXCEPT !.engine = Some(engine)],
                        table |-> sql.table, engines |-> engine,
                        ret |-> Some(engine)]
    ELSE [raised |-> FALSE, loaded |-> FALSE, ss |-> ss, table |-> table,
          engines |-> n, ret |-> ss.engine]

\* @st.cache_resource: one entry for the whole process (the function has no
\* arguments); the body runs on a miss only, and a raise stores nothing.
get_sqlite_engine(s, ok) ==
    IF cache_resource # None
    THEN [raised |-> FALSE, loaded |-> FALSE, ss |-> session_state[s],
          table |-> db_file, engines |-> engines, ret |-> cache_resource,
          cache |-> cache_resource]
    ELSE LET r == get_sqlite_engine_body(session_state[s],
                                         load_csv_files(s, ok), db_file, engines)
         IN  [raised |-> r.raised, loaded |-> r.loaded, ss |-> r.ss,
              table |-> r.table, engines |-> r.engines, ret |-> r.ret,
              cache |-> IF r.raised THEN None ELSE r.ret]

\* What the calls of get_sqlite_engine made in a session did: the last
\* call's outcome, the session's state before it and the table and columns
\* as it returned; the loads so far; whether a tool read an unset value.
NoHist ==
    [outcome |-> "none", loads |-> 0, before |-> FreshState, table |-> None,
     columns |-> None, ret |-> None, read_unset |-> FALSE]

Called(s, r) ==
    /\ cache_resource' = r.cache
    /\ engines' = r.engines
    /\ session_state' = [session_state EXCEPT ![s] = r.ss]
    /\ db_file' = r.table

Recorded(h, before, r) ==
    [h EXCEPT !.outcome = IF r.raised THEN "failed"
                          ELSE IF r.loaded THEN "loaded" ELSE "cached",
              !.loads = IF r.loaded THEN @ + 1 ELSE @,
              !.before = before,
              !.table = r.table,
              !.columns = r.ss.columns,
              !.ret = r.ret]

\* The running tool call: the tool, its question, the chain's values, the
\* steps run so far in order, the statements executed, how it ended.
NoTurn ==
    [tool |-> "none", question |-> <<>>, column_names |-> None,
     llm_out |-> None, query |-> None, result |-> None, prompt |-> None,
     steps |-> <<>>, executed |-> <<>>, exec_failed |-> FALSE,
     out |-> Pending]

Init ==
    /\ FenceOff /\ DescOff
    /\ cache_resource = None
    /\ engines = 0
    /\ session_state = [s \in Sessions |-> FreshState]
    /\ upload \in [Sessions -> {CsvA, CsvB}]
    /\ db_file \in {None, Some(CsvC.rows)}
    /\ pc = [s \in Sessions |-> "new"]
    /\ turn = [s \in Sessions |-> NoTurn]
    /\ hist = [s \in Sessions |-> NoHist]

\* A session starts: the store is acquired; a raise aborts the setup.
SessionSetup(s) ==
    /\ pc[s] = "new"
    /\ \E ok \in BOOLEAN :
         LET r == get_sqlite_engine(s, ok)
         IN  /\ Called(s, r)
             /\ hist' = [hist EXCEPT ![s] = Recorded(@, session_state[s], r)]
             /\ pc' = [pc EXCEPT ![s] = IF r.raised THEN "new" ELSE "idle"]
    /\ UNCHANGED <<upload, turn, fenceVars, descVars>>

\* ---------------------------------------------------------- database_tool
\* SQL text is written with a whole statement as one character.
SelectCount == "SELECT COUNT(*) FROM db"
DeleteAll == "DELETE FROM db"
DropTable == "DROP TABLE db"
Malformed == "SELEC * FORM db"

\* What the query-synthesis call may answer.
SynthOutputs ==
    {<<SelectCount>>,
     FenceOpen \o <<"\n", SelectCount, "\n">> \o FenceClose,
     FenceOpen \o <<" ", DeleteAll>> \o FenceClose,
     <<DropTable>>,
     <<Malformed>>,
     FenceOpen \o <<"\n", Malformed>> \o FenceClose,
     FenceClose \o <<SelectCount>> \o FenceClose}

SqlError(msg) == [error |-> TRUE, text |-> msg, count |-> 0]
SqlRows(text, n) == [error |-> FALSE, text |-> text, count |-> n]

\* SQLite running one statement on table db
run(stmt, table) ==
    IF stmt \notin {<<SelectCount>>, <<DeleteAll>>, <<DropTable>>}
    THEN [result |-> SqlError("Error: syntax error"), table |-> table]
    ELSE IF table = None
    THEN [result |-> SqlError("Error: no such table: db"), table |-> table]
    ELSE IF stmt = <<SelectCount>>
    THEN [result |-> SqlRows("[(count,)]", Len(table[1])), table |-> table]
    ELSE IF stmt = <<DeleteAll>>
    THEN [result |-> SqlRows("", 0), table |-> Some(<<>>)]
    ELSE [result |-> SqlRows("", 0), table |-> None]

\* QuerySQLDataBaseTool(db=db, handle_tool_error=True) as a chain step
execute_query_raising(stmt, table) ==
    LET r == run(stmt, table)
    IN  [raised |-> r.result.error, failed |-> r.result.error,
         result |-> r.result, table |-> r.table]

execute_query(stmt, table) ==
    LET r == run(stmt, table)
    IN  [raised |-> FALSE, failed |-> r.result.error, result |-> r.result,
         table |-> r.table]

ChainOrder ==
    <<"write_query", "remove_markdown_code_block", "execute_query", "answer">>

\* lines 104-108: the engine, SQLDatabase(include_tables=["db"]), the
\* column names joined
DatabaseToolStart(s) ==
    /\ pc[s] = "idle"
    /\ \E ok \in BOOLEAN :
         LET r == get_sqlite_engine(s, ok)
             columns == r.ss.columns
             t == [NoTurn EXCEPT !.tool = "database_tool"]
         IN  /\ Called(s, r)
             /\ IF r.raised
                THEN /\ turn' = [turn EXCEPT ![s] = [t EXCEPT !.out = Raised("load")]]
                     /\ hist' = [hist EXCEPT ![s] = Recorded(@, session_state[s], r)]
                     /\ pc' = pc
                ELSE IF r.table = None
                THEN /\ turn' = [turn EXCEPT ![s] = [t EXCEPT !.out = Raised("ValueError")]]
                     /\ hist' = [hist EXCEPT ![s] = Recorded(@, session_state[s], r)]
                     /\ pc' = pc
                ELSE IF columns = None
                THEN /\ turn' = [turn EXCEPT ![s] = [t EXCEPT !.out = Raised("TypeError")]]
                     /\ hist' = [hist EXCEPT ![s] =
                                   [Recorded(@, session_state[s], r)
                                      EXCEPT !.read_unset = TRUE]]
                     /\ pc' = pc
                ELSE /\ turn' = [turn EXCEPT ![s] =
                                   [t EXCEPT !.column_names = Some(join(columns[1]))]]
                     /\ hist' = [hist EXCEPT ![s] = Recorded(@, session_state[s], r)]
                     /\ pc' = [pc EXCEPT ![s] = "write"]
    /\ UNCHANGED <<upload, fenceVars, descVars>>

\* write_query: the query-synthesis call
WriteQuery(s) ==
    /\ pc[s] = "write"
    /\ \E text \in SynthOutputs :
         turn' = [turn EXCEPT ![s].llm_out = Some(text),
                              ![s].steps = Append(@, "write_query")]
    /\ pc' = [pc EXCEPT ![s] = "strip"]
    /\ UNCHANGED <<cache_resource, engines, session_state, upload, db_file,
                   hist, fenceVars, descVars>>

\* | remove_markdown_code_block
StripFence(s) ==
    /\ pc[s] = "strip"
    /\ turn' = [turn EXCEPT
                  ![s].query = Some(remove_markdown_code_block(turn[s].llm_out[1])),
                  ![s].steps = Append(@, "remove_markdown_code_block")]
    /\ pc' = [pc EXCEPT ![s] = "exec"]
    /\ UNCHANGED <<cache_resource, engines, session_state, upload, db_file,
                   hist, fenceVars, descVars>>

\* result = itemgetter("query") | execute_query
ExecuteQueryRetrying(s) ==
    /\ pc[s] = "exec"
    /\ LET e == execute_query(turn[s].query[1], db_file)
       IN  /\ db_file' = e.table
           /\ turn' = [turn EXCEPT
                         ![s].result = Some(e.result),
                         ![s].exec_failed = e.failed,
                         ![s].executed = Append(@, turn[s].query[1]),
                         ![s].steps = Append(@, "execute_query")]
           /\ pc' = [pc EXCEPT ![s] = IF e.failed THEN "exec" ELSE "answer"]
    /\ UNCHANGED <<cache_resource, engines, session_state, upload, hist,
                   fenceVars, descVars>>

ExecuteQuery(s) ==
    /\ pc[s] = "exec"
    /\ LET e == execute_query(turn[s].query[1], db_file)
       IN  /\ db_file' = e.table
           /\ turn' = [turn EXCEPT
                         ![s].result = IF e.raised THEN None ELSE Some(e.result),
                         ![s].exec_failed = e.failed,
                         ![s].executed = Append(@, turn[s].query[1]),
                         ![s].steps = Append(@, "execute_query"),
                         ![s].out = IF e.raised THEN Raised("OperationalError")
                                    ELSE @]
           /\ pc' = [pc EXCEPT ![s] = IF e.raised THEN "idle" ELSE "answer"]
    /\ UNCHANGED <<cache_resource, engines, session_state, upload, hist,
                   fenceVars, descVars>>

\* | answer_prompt | strict_llm | StrOutputParser()
Answer(s) ==
    /\ pc[s] = "answer"
    /\ LET prompt == [column_names |-> turn[s].column_names[1],
                      query |-> turn[s].query[1],
                      result |-> turn[s].result[1]]
       IN  turn' = [turn EXCEPT
                      ![s].prompt = Some(prompt),
                      ![s].steps = Append(@, "answer"),
                      ![s].out = Returned("Answer: ", <<prompt>>)]
    /\ pc' = [pc EXCEPT ![s] = "idle"]
    /\ UNCHANGED <<cache_resource, engines, session_state, upload, db_file,
                   hist, fenceVars, descVars>>

\* The questions the agent hands to describe_dataset here.
ToolQueries == {kw_shape, <<"u", "n", "k", "n", "o", "w", "n">>}

DescribeDataset(s) ==
    /\ pc[s] = "idle"
    /\ \E q \in ToolQueries :
         turn' = [turn EXCEPT ![s] =
                    [NoTurn EXCEPT !.tool = "describe_dataset",
                                   !.question = q,
                                   !.out = describe_dataset(q, session_state[s].df)]]
    /\ hist' = [hist EXCEPT ![s].read_unset = @ \/ session_state[s].df = None]
    /\ UNCHANGED <<cache_resource, engines, session_state, upload, db_file,
                   pc, fenceVars, descVars>>

Next ==
    \E s \in Sessions :
        \/ SessionSetup(s)
        \/ DatabaseToolStart(s)
        \/ WriteQuery(s)
        \/ StripFence(s)
        \/ ExecuteQuery(s)
        \/ Answer(s)
        \/ DescribeDataset(s)

Spec == Init /\ [][Next]_vars

\* ----------------------------------------------------------------- claims
Mentions(q, kws) == \E k \in kws : contains(lower(q), k)
BranchKeywords ==
    <<{kw_describe, kw_statistics}, {kw_columns, kw_fields},
      {kw_shape, kw_size}, {kw_sample}>>
BranchTexts == <<StatisticsText, ColumnsText, ShapeText, SampleText>>
\* the first branch in the fixed order whose keywords the query mentions,
\* 0 when none does
FirstMatch(q) ==
    LET m == {i \in 1..Len(BranchKeywords) : Mentions(q, BranchKeywords[i])}
    IN  IF m = {} THEN 0 ELSE CHOOSE i \in m : \A j \in m : i <= j

\* C1: describe_dataset answers with the branch of the first keyword group,
\* in the order describe/statistics, columns/fields, shape/size, sample,
\* that the lower-cased query mentions, and with the clarification message
\* verbatim when it mentions none; a query mentioning both "describe" and
\* "sample" gets the statistics answer, not the sample answer.
C1_FirstMatchWins ==
    desc_out # Pending =>
        /\ desc_out.kind = "return"
        /\ IF FirstMatch(desc_query) = 0
           THEN desc_out = Returned(ClarificationText, <<>>)
           ELSE desc_out.text = BranchTexts[FirstMatch(desc_query)]
        /\ (Mentions(desc_query, {kw_describe}) /\ Mentions(desc_query, {kw_sample}))
              => desc_out.text = StatisticsText /\ desc_out.text # SampleText

C1_Witness ==
    /\ desc_out.kind = "return"
    /\ desc_out.text = StatisticsText
    /\ Mentions(desc_query, {kw_describe})
    /\ Mentions(desc_query, {kw_sample})

AllSpace(t) == \A i \in 1..Len(t) : t[i] \in Whitespace
\* r is inner without its leading and trailing whitespace
IsTrimOf(r, inner) ==
    /\ r # <<>> => r[1] \notin Whitespace /\ r[Len(r)] \notin Whitespace
    /\ \E i \in 0..(Len(inner) - Len(r)) :
          /\ SubSeq(inner, i + 1, i + Len(r)) = r
          /\ AllSpace(SubSeq(inner, 1, i))
          /\ AllSpace(SubSeq(inner, i + Len(r) + 1, Len(inner)))

\* C4: for a string that starts with the opening SQL fence and ends with
\* the closing fence, remove_markdown_code_block returns what stands
\* between the two markers with its leading and trailing whitespace
\* removed; every other string is returned unchanged.
C4_FenceStripped ==
    fence_out # None =>
        IF startswith(fence_in, FenceOpen) /\ endswith(fence_in, FenceClose)
        THEN /\ Len(fence_in) >= Len(FenceOpen) + Len(FenceClose)
             /\ LET inner == SubSeq(fence_in, Len(FenceOpen) + 1,
                                    Len(fence_in) - Len(FenceClose))
                IN  /\ fence_in = FenceOpen \o inner \o FenceClose
                    /\ IsTrimOf(fence_out[1], inner)
        ELSE fence_out[1] = fence_in

C4_Witness ==
    /\ fence_out # None
    /\ startswith(fence_in, FenceOpen) /\ endswith(fence_in, FenceClose)
    /\ fence_out[1] # <<>>
    /\ Len(fence_out[1]) + Len(FenceOpen) + Len(FenceClose) < Len(fence_in)

Acquired(s) == hist[s].outcome \in {"loaded", "cached"}

\* C2: in every session in which get_sqlite_engine has returned, the
\* dataset load and the drop-and-reload of table db have happened exactly
\* once, in that session's first call, also with several sessions in the
\* process.
C2_OneLoadPerSession ==
    \A s \in Sessions : Acquired(s) => hist[s].loads = 1

\* C3: when get_sqlite_engine has returned in a session whose CSV has N
\* rows and M columns, table db holds exactly N rows and the session's
\* recorded column list has length M.
C3_TableMatchesCsv ==
    \A s \in Sessions :
        Acquired(s) =>
            /\ hist[s].table # None
            /\ Len(hist[s].table[1]) = Len(upload[s].rows)
            /\ hist[s].columns # None
            /\ Len(hist[s].columns[1]) = Len(upload[s].columns)

\* C5: when the statement database_tool runs fails to execute, the failure
\* does not raise: it becomes the result text, and the turn ends with an
\* answer composed from that result.
C5_ExecErrorReported ==
    \A s \in Sessions :
        (turn[s].tool = "database_tool" /\ turn[s].exec_failed) =>
            /\ turn[s].out.kind # "raise"
            /\ turn[s].result # None
            /\ turn[s].result[1].error
            /\ pc[s] \in {"answer", "idle"}
            /\ pc[s] = "idle" =>
                  /\ turn[s].out.kind = "return"
                  /\ turn[s].prompt # None
                  /\ turn[s].prompt[1].result = turn[s].result[1]

C5_Witness ==
    \E s \in Sessions :
        /\ turn[s].tool = "database_tool"
        /\ turn[s].exec_failed
        /\ pc[s] = "idle"
        /\ turn[s].out.kind = "return"

\* C6: when loading the dataset fails during get_sqlite_engine, the
\* session's engine handle, dataset and column list are as they were
\* before the call.
C6_LoadFailureKeepsState ==
    \A s \in Sessions :
        hist[s].outcome = "failed" => session_state[s] = hist[s].before

C6_Witness ==
    \E s \in Sessions :
        /\ hist[s].outcome = "failed"
        /\ pc[s] = "new"
        /\ cache_resource = None

\* C7: every statement database_tool executes is read-only: table db holds
\* the rows loaded at store acquisition after any sequence of turns.
C7_TableNeverChanges ==
    \A s \in Sessions :
        hist[s].loads = 1 => db_file = Some(upload[s].rows)

\* C8: a describe_dataset call whose query matches shape/size and no
\* earlier keyword returns the row count and the column count of the
\* dataset uploaded in the calling session.
C8_ShapeOfOwnDataset ==
    \A s \in Sessions :
        (turn[s].tool = "describe_dataset" /\ FirstMatch(turn[s].question) = 3) =>
            turn[s].out = Returned(ShapeText, <<str(Len(upload[s].rows)),
                                                str(Len(upload[s].columns))>>)

IsPrefix(a, b) == Len(a) <= Len(b) /\ SubSeq(b, 1, Len(a)) = a

\* C9: a database_tool turn runs query synthesis, fence stripping,
\* execution and answer composition in this order, once each; the one
\* statement executed is the stripped synthesis output; nothing is retried.
C9_ChainOnceInOrder ==
    \A s \in Sessions :
        turn[s].tool = "database_tool" =>
            /\ IsPrefix(turn[s].steps, ChainOrder)
            /\ pc[s] = "write" => turn[s].steps = <<>>
            /\ pc[s] = "strip" => Len(turn[s].steps) = 1
            /\ pc[s] = "exec" => Len(turn[s].steps) = 2
            /\ pc[s] = "answer" => Len(turn[s].steps) = 3
            /\ turn[s].out.kind = "return" => turn[s].steps = ChainOrder
            /\ turn[s].executed =
                  IF Len(turn[s].steps) >= 3
                  THEN <<remove_markdown_code_block(turn[s].llm_out[1])>>
                  ELSE <<>>

C9_Witness ==
    \E s \in Sessions :
        /\ turn[s].tool = "database_tool"
        /\ turn[s].out.kind = "return"
        /\ turn[s].exec_failed
        /\ turn[s].steps = ChainOrder
        /\ turn[s].executed # <<turn[s].llm_out[1]>>

\* C10: no tool reads the dataset or the column list of a session before
\* they have been set.
C10_NoReadBeforeWrite ==
    \A s \in Sessions : ~hist[s].read_unset

====
